---- MODULE Spec2Model ----
(***************************************************************************)
(* A model of the rental-listing scraper described in the post "Using      *)
(* Python to work around a 2 month notice period": rightmove_scraper.py    *)
(* (scrape_listings, scrape, filter_listings,                              *)
(* get_listings_available_after_n_weeks, process_listings), listing.py     *)
(* (Listing) and sheet.py (Sheet.add_listings, build_row).                 *)
(*                                                                         *)
(* Three specifications share the variables:                               *)
(*   Spec        one cron run after another: scrape, filter, persist,      *)
(*               notify;                                                   *)
(*   SpecStore   any sequence of process_listings calls on one sheet;      *)
(*   SpecFilter  filter_listings applied to any bounded input.             *)
(***************************************************************************)
EXTENDS Integers, Sequences, FiniteSets, TLC

VARIABLES
    store,       \* the worksheet: a sequence of rows, row 1 the header
    pc,          \* where the run (or the call under study) stands
    config,      \* config.ini: [has_lead, lead, mailer]
    site,        \* what each location's search answers in this run
    input,       \* the argument of the operation last applied
    listings,    \* the run's current listing sequence / the operation's result
    written,     \* add_listings' first result
    duplicates,  \* add_listings' second result
    before,      \* the worksheet when add_listings was entered
    repeatOf,    \* the preceding add_listings call, when its input was the same
    message,     \* the summary process_listings composed
    mails,       \* the messages handed to Mailer.send_mail in this run
    reported,    \* whether a send_mail failure was reported in this run
    raised       \* the exception that ended the run or the call, or "none"

vars == <<store, pc, config, site, input, listings, written, duplicates,
          before, repeatOf, message, mails, reported, raised>>

----------------------------------------------------------------------------
(* Bounds of the model. *)

\* listing URLs are 1..MaxUrl
MaxUrl == 2
\* longest listing sequence handed to add_listings or filter_listings
MaxIn == 2
\* most listing links on one search page
MaxPerLoc == 2
\* largest availableAfterNWeeks drawn
MaxWeeks == 1

\* config.ini, [locations] identifiers: two location identifiers
NumLocations == 2

Urls == 1..MaxUrl

RECURSIVE SeqsUpTo(_, _)
SeqsUpTo(S, n) ==
    IF n = 0 THEN {<<>>}
    ELSE LET shorter == SeqsUpTo(S, n - 1)
         IN  shorter \cup {Append(s, x) : s \in {t \in shorter : Len(t) = n - 1}, x \in S}

----------------------------------------------------------------------------
(* Dates.  date_available and date_scraped are texts: empty, "Now", or a   *)
(* date written dd/mm/yyyy, modelled as <<dd, mm, yyyy>>.  A date object   *)
(* is the count of days since 31/12/2019.                                  *)

EmptyText == <<>>
NowText == <<"Now">>

BaseYear == 2020

IsLeap(y) == (y % 4 = 0 /\ y % 100 # 0) \/ y % 400 = 0

DaysInMonth(m, y) ==
    IF m = 2 THEN (IF IsLeap(y) THEN 29 ELSE 28)
    ELSE IF m \in {4, 6, 9, 11} THEN 30 ELSE 31

RECURSIVE DaysBeforeMonth(_, _)
DaysBeforeMonth(m, y) ==
    IF m = 1 THEN 0 ELSE DaysBeforeMonth(m - 1, y) + DaysInMonth(m - 1, y)

RECURSIVE DaysBeforeYear(_)
DaysBeforeYear(y) ==
    IF y = BaseYear THEN 0
    ELSE DaysBeforeYear(y - 1) + (IF IsLeap(y - 1) THEN 366 ELSE 365)

\* datetime.datetime.strptime(x, "%d/%m/%Y").date()
convert_date(x) == DaysBeforeYear(x[3]) + DaysBeforeMonth(x[2], x[3]) + x[1]

\* date.strftime('%d/%m/%Y'): the months are counted off from January of BaseYear
RECURSIVE strftime_from(_, _, _)
strftime_from(day, m, y) ==
    IF day <= DaysInMonth(m, y) THEN <<day, m, y>>
    ELSE IF m = 12 THEN strftime_from(day - DaysInMonth(m, y), 1, y + 1)
    ELSE strftime_from(day - DaysInMonth(m, y), m + 1, y)

strftime(day) == strftime_from(day, 1, BaseYear)

\* the day the post is dated, 27/06/2020
Today == convert_date(<<27, 6, 2020>>)

\* datetime.timedelta(weeks=n_weeks), in days
timedelta(n_weeks) == 7 * n_weeks

\* the availability dates drawn: today up to the day after the longest lead
WindowDates == {strftime(Today + k) : k \in 0..(timedelta(MaxWeeks) + 1)}

----------------------------------------------------------------------------
(* Listing (listing.py): the URL it was built from and, after             *)
(* scrape_details, the details read from its page.                        *)

Listing(url, date_available) == [url |-> url, date_available |-> date_available]

\* the listings handed to add_listings: one for every URL, and the first URL
\* also as scraped again with other details
StoreListings == {Listing(u, EmptyText) : u \in Urls} \cup {Listing(1, NowText)}

\* the listings handed to filter_listings: every availability form
FilterInputs == {Listing(u, a) : u \in Urls, a \in {EmptyText, NowText} \cup WindowDates}

----------------------------------------------------------------------------
(* config.ini, read with configparser.  An option's value is a text: a     *)
(* sequence of decimal digits here, <<>> when the line is                  *)
(* "availableAfterNWeeks =".  has_lead says whether the line is there.     *)

RECURSIVE str(_)
str(n) == IF n < 10 THEN <<n>> ELSE Append(str(n \div 10), n % 10)

RECURSIVE int(_)
int(text) ==
    IF Len(text) = 1 THEN text[1]
    ELSE 10 * int(SubSeq(text, 1, Len(text) - 1)) + text[Len(text)]

LeadTexts == {<<>>} \cup {str(n) : n \in 0..MaxWeeks}

Configs ==
    {[has_lead |-> TRUE, lead |-> l, mailer |-> m] : l \in LeadTexts, m \in BOOLEAN}
    \cup {[has_lead |-> FALSE, lead |-> <<>>, mailer |-> m] : m \in BOOLEAN}

\* config.get("filters", "availableAfterNWeeks"): no fallback is given, so a
\* missing option raises configparser.NoOptionError
config_get_availableAfterNWeeks(cfg) ==
    IF cfg.has_lead THEN [raised |-> "none", value |-> cfg.lead]
    ELSE [raised |-> "NoOptionError", value |-> <<>>]

----------------------------------------------------------------------------
(* The search (rightmove_scraper.py).  A location's search answers with a  *)
(* page of listing links ("ok"), with a non-success status and a page      *)
(* without links ("status"), or not at all ("transport").                  *)

LocationAnswers ==
    {[fetch |-> "ok", links |-> l] : l \in SeqsUpTo(Urls, MaxPerLoc)}
    \cup {[fetch |-> f, links |-> <<>>] : f \in {"status", "transport"}}

\* the details Listing.scrape_details reads from the page behind a URL (the page
\* itself is taken to be fetched): the pages
\* of the odd URLs give no date, those of the even URLs the day after the longest lead
PageOf(url) ==
    IF url % 2 = 1 THEN EmptyText ELSE strftime(Today + timedelta(MaxWeeks) + 1)

\* scrape: requests.get(url).text raises when the request does not complete and
\* returns the body whatever the status; every link found becomes a Listing
\* and scrape_details fills it in
scrape(answer) ==
    IF answer.fetch = "transport"
    THEN [raised |-> "ConnectionError", listings |-> <<>>]
    ELSE [raised |-> "none",
          listings |-> [i \in 1..Len(answer.links) |->
                            Listing(answer.links[i], PageOf(answer.links[i]))]]

\* remove_duplicate_listings (not shown in the post): the first listing of each URL
\* stays, in the order met
RECURSIVE remove_duplicate_listings(_)
remove_duplicate_listings(ls) ==
    IF ls = <<>> THEN <<>>
    ELSE LET init == remove_duplicate_listings(SubSeq(ls, 1, Len(ls) - 1))
             last == ls[Len(ls)]
         IN  IF \E i \in 1..Len(init) : init[i].url = last.url
             THEN init ELSE Append(init, last)

\* a faulty scrape_listings: the duplicates are removed from each location's
\* listings, not from the whole
RECURSIVE scrape_each_deduplicated(_, _, _)
scrape_each_deduplicated(answers, i, acc) ==
    IF i > Len(answers) THEN [raised |-> "none", listings |-> acc]
    ELSE LET r == scrape(answers[i])
         IN  IF r.raised # "none" THEN [raised |-> r.raised, listings |-> <<>>]
             ELSE scrape_each_deduplicated(answers, i + 1,
                                           acc \o remove_duplicate_listings(r.listings))

scrape_listings_per_location(answers) == scrape_each_deduplicated(answers, 1, <<>>)

\* the loop of scrape_listings: listings.extend(self.scrape(url)) for each
\* identifier; nothing catches what scrape raises
RECURSIVE scrape_each(_, _, _)
scrape_each(answers, i, acc) ==
    IF i > Len(answers) THEN [raised |-> "none", listings |-> acc]
    ELSE LET r == scrape(answers[i])
         IN  IF r.raised # "none" THEN [raised |-> r.raised, listings |-> <<>>]
             ELSE scrape_each(answers, i + 1, acc \o r.listings)

\* scrape_listings
scrape_listings(answers) ==
    LET r == scrape_each(answers, 1, <<>>)
    IN  IF r.raised # "none" THEN r
        ELSE [raised |-> "none", listings |-> remove_duplicate_listings(r.listings)]

----------------------------------------------------------------------------
(* The availability filter (rightmove_scraper.py). *)

\* Listing.has_date_available (not shown in the post): the availability is a date
has_date_available(listing) == listing.date_available \notin {EmptyText, NowText}

\* get_listings_available_after_n_weeks.  The comprehension's condition is
\*   listing.has_date_available() and convert_daye(listing.date_available) > available_after
\* and convert_daye is bound nowhere (the local function is convert_date): the
\* first listing that has a date raises NameError; with none, "and" never
\* reaches the name and no listing is kept.
get_listings_available_after_n_weeks(n_weeks, today, ls) ==
    IF Len(ls) = 0 THEN [raised |-> "none", listings |-> ls]
    ELSE LET available_after == today + timedelta(n_weeks)
         IN  IF \E i \in 1..Len(ls) : has_date_available(ls[i])
             THEN [raised |-> "NameError", listings |-> <<>>]
             ELSE [raised |-> "none",
                   listings |-> SelectSeq(ls, LAMBDA listing : has_date_available(listing))]

\* filter_listings
filter_listings(cfg, today, ls) ==
    LET option == config_get_availableAfterNWeeks(cfg)
    IN  IF option.raised # "none" THEN [raised |-> option.raised, listings |-> <<>>]
        ELSE IF option.value # <<>>
             THEN get_listings_available_after_n_weeks(int(option.value), today, ls)
             ELSE [raised |-> "none", listings |-> ls]

----------------------------------------------------------------------------
(* Sheet (sheet.py). *)

HeaderRow == <<0, EmptyText>>

\* build_row: the listing's attributes in propertyMappings' column order
build_row(listing) == <<listing.url, listing.date_available>>

\* a faulty insert_row: the row is written over the one at index
insert_row_overwrite(sheet, row, index) ==
    IF index > Len(sheet) THEN Append(sheet, row)
    ELSE [sheet EXCEPT ![index] = row]

\* worksheet.insert_row(row, index): the rows from index on move down by one
insert_row(sheet, row, index) ==
    SubSeq(sheet, 1, index - 1) \o <<row>> \o SubSeq(sheet, index, Len(sheet))

\* does_cell_exist_with_value (not shown in the post): some row's URL cell is the value
does_cell_exist_with_value(sheet, value) ==
    \E i \in 1..Len(sheet) : sheet[i][1] = value

RECURSIVE add_listings_loop(_, _, _, _)
add_listings_loop(sheet, ls, w, d) ==
    IF ls = <<>> THEN [sheet |-> sheet, written |-> w, duplicates |-> d]
    ELSE LET listing == Head(ls)
             is_existing_listing == does_cell_exist_with_value(sheet, listing.url)
         IN  IF ~is_existing_listing
             THEN add_listings_loop(insert_row(sheet, build_row(listing), 2),
                                    Tail(ls), w + 1, d)
             ELSE add_listings_loop(sheet, Tail(ls), w, d + 1)

\* a faulty add_listings: the test loses its "not"
RECURSIVE add_listings_inverted_loop(_, _, _, _)
add_listings_inverted_loop(sheet, ls, w, d) ==
    IF ls = <<>> THEN [sheet |-> sheet, written |-> w, duplicates |-> d]
    ELSE LET listing == Head(ls)
             is_existing_listing == does_cell_exist_with_value(sheet, listing.url)
         IN  IF is_existing_listing
             THEN add_listings_inverted_loop(insert_row(sheet, build_row(listing), 2),
                                             Tail(ls), w + 1, d)
             ELSE add_listings_inverted_loop(sheet, Tail(ls), w, d + 1)

add_listings_inverted(sheet, ls) == add_listings_inverted_loop(sheet, ls, 0, 0)

\* a faulty add_listings: the URL column is read once, before the loop
RECURSIVE add_listings_batch_loop(_, _, _, _, _)
add_listings_batch_loop(entry, sheet, ls, w, d) ==
    IF ls = <<>> THEN [sheet |-> sheet, written |-> w, duplicates |-> d]
    ELSE LET listing == Head(ls)
             is_existing_listing == does_cell_exist_with_value(entry, listing.url)
         IN  IF ~is_existing_listing
             THEN add_listings_batch_loop(entry, insert_row(sheet, build_row(listing), 2),
                                          Tail(ls), w + 1, d)
             ELSE add_listings_batch_loop(entry, sheet, Tail(ls), w, d + 1)

add_listings_batch(sheet, ls) == add_listings_batch_loop(sheet, sheet, ls, 0, 0)

\* a faulty add_listings: "duplicates += 1" stands after the if, not in its else
RECURSIVE add_listings_miscount_loop(_, _, _, _)
add_listings_miscount_loop(sheet, ls, w, d) ==
    IF ls = <<>> THEN [sheet |-> sheet, written |-> w, duplicates |-> d]
    ELSE LET listing == Head(ls)
             is_existing_listing == does_cell_exist_with_value(sheet, listing.url)
         IN  IF ~is_existing_listing
             THEN add_listings_miscount_loop(insert_row(sheet, build_row(listing), 2),
                                             Tail(ls), w + 1, d + 1)
             ELSE add_listings_miscount_loop(sheet, Tail(ls), w, d + 1)

add_listings_miscount(sheet, ls) == add_listings_miscount_loop(sheet, ls, 0, 0)

\* Sheet.add_listings
add_listings(sheet, ls) == add_listings_loop(sheet, ls, 0, 0)

\* a faulty send_mail: the failure is raised to the caller
send_mail_raises(body, smtp_ok) ==
    [sent |-> smtp_ok, reported |-> ~smtp_ok,
     raised |-> IF smtp_ok THEN "none" ELSE "SMTPException"]

\* Mailer.send_mail (not shown in the post): the message goes out, or the failure
\* is reported; neither ends the run
send_mail(body, smtp_ok) ==
    [sent |-> smtp_ok, reported |-> ~smtp_ok, raised |-> "none"]

\* a faulty process_listings: the test of written is lost
process_listings_always_mails(sheet, ls, cfg, smtp_ok) ==
    LET r == add_listings(sheet, ls)
        msg == [eligible |-> Len(ls), written |-> r.written,
                duplicates |-> r.duplicates]
        send == cfg.mailer
        m == send_mail(msg, smtp_ok)
    IN  [sheet |-> r.sheet, written |-> r.written, duplicates |-> r.duplicates,
         message |-> msg,
         mails |-> IF send THEN <<msg>> ELSE <<>>,
         reported |-> send /\ m.reported,
         raised |-> IF send THEN m.raised ELSE "none"]

\* process_listings (rightmove_scraper.py): persist, compose the summary, and mail
\* it when a [mailer] section is configured and something was written
process_listings(sheet, ls, cfg, smtp_ok) ==
    LET r == add_listings(sheet, ls)
        msg == [eligible |-> Len(ls), written |-> r.written,
                duplicates |-> r.duplicates]
        send == cfg.mailer /\ r.written # 0
        m == send_mail(msg, smtp_ok)
    IN  [sheet |-> r.sheet, written |-> r.written, duplicates |-> r.duplicates,
         message |-> msg,
         mails |-> IF send THEN <<msg>> ELSE <<>>,
         reported |-> send /\ m.reported,
         raised |-> IF send THEN m.raised ELSE "none"]

NoCall == [same |-> FALSE, before |-> <<>>, written |-> 0, duplicates |-> 0]
NoMessage == [eligible |-> 0, written |-> 0, duplicates |-> 0]

----------------------------------------------------------------------------
(* SpecStore: process_listings, and so add_listings, called again and      *)
(* again on one worksheet, with no [mailer] section configured.            *)

InitStore ==
    /\ store = <<HeaderRow>>
    /\ pc = "ready"
    /\ config = [has_lead |-> TRUE, lead |-> <<>>, mailer |-> FALSE]
    /\ site = <<>>
    /\ input = <<>>
    /\ listings = <<>>
    /\ written = 0
    /\ duplicates = 0
    /\ before = <<HeaderRow>>
    /\ repeatOf = NoCall
    /\ message = NoMessage
    /\ mails = <<>>
    /\ reported = FALSE
    /\ raised = "none"

ProcessListingsCall ==
    \E ls \in SeqsUpTo(StoreListings, MaxIn) :
        LET r == process_listings(store, ls, config, TRUE)
        IN  /\ store' = r.sheet
            /\ written' = r.written
            /\ duplicates' = r.duplicates
            /\ message' = r.message
            /\ mails' = r.mails
            /\ reported' = r.reported
            /\ raised' = r.raised
            /\ input' = ls
            /\ before' = store
            /\ repeatOf' = IF pc = "returned" /\ ls = input
                           THEN [same |-> TRUE, before |-> before,
                                 written |-> written, duplicates |-> duplicates]
                           ELSE NoCall
            /\ pc' = "returned"
            /\ UNCHANGED <<config, site, listings>>

NextStore == ProcessListingsCall

SpecStore == InitStore /\ [][NextStore]_vars

----------------------------------------------------------------------------
(* Properties of the worksheet. *)

UrlsOf(ls) == {ls[i].url : i \in 1..Len(ls)}

DistinctUrls(ls) == \A i, j \in 1..Len(ls) : i # j => ls[i].url # ls[j].url

SheetUrls(sheet) == {sheet[i][1] : i \in 2..Len(sheet)}

Rows(sheet) == {sheet[i] : i \in 2..Len(sheet)}

\* the input positions add_listings finds no row for: the URL is in no row of the
\* sheet the call started with and at no earlier input position
NewAt(ls, sheet) ==
    {i \in 1..Len(ls) : /\ ls[i].url \notin SheetUrls(sheet)
                        /\ \A j \in 1..(i - 1) : ls[j].url # ls[i].url}

\* C1: add_listings called twice in a row with the same N listings, of pairwise
\* distinct URLs none of which was in the sheet, returns (N, 0) and then (0, N),
\* and the second call leaves the sheet as the first left it.
C1_Idempotent ==
    (/\ repeatOf.same
     /\ DistinctUrls(input)
     /\ UrlsOf(input) \cap SheetUrls(repeatOf.before) = {})
    => /\ repeatOf.written = Len(input)
       /\ repeatOf.duplicates = 0
       /\ written = 0
       /\ duplicates = Len(input)
       /\ store = before

C1_Witness ==
    /\ repeatOf.same
    /\ Len(input) = 2
    /\ DistinctUrls(input)
    /\ UrlsOf(input) \cap SheetUrls(repeatOf.before) = {}
    /\ duplicates = 2

\* C2: no URL is in more than one row of the sheet, whatever the calls, also
\* when one input holds a URL more than once; a listing whose URL has a row is
\* not inserted and counts as a duplicate.
C2_UniqueUrls ==
    /\ \A i, j \in 2..Len(store) : i # j => store[i][1] # store[j][1]
    /\ pc = "returned" =>
        /\ Len(store) = Len(before) + Cardinality(NewAt(input, before))
        /\ duplicates = Len(input) - Cardinality(NewAt(input, before))

C2_Witness ==
    /\ pc = "returned"
    /\ \E i, j \in 1..Len(input) : i < j /\ input[i].url = input[j].url
    /\ written >= 1
    /\ duplicates >= 1
    /\ Len(before) > 1

\* C7: the sheet only grows: after a call every row it held is still there, in
\* the same order and with the same cells; the only rows added are those of
\* input listings whose URL had no row, and each such listing has its row.
C7_AppendOnly ==
    pc = "returned" =>
        /\ Len(store) >= Len(before)
        /\ store[1] = before[1]
        /\ SubSeq(store, Len(store) - Len(before) + 2, Len(store))
              = SubSeq(before, 2, Len(before))
        /\ Rows(store) \ Rows(before) = {build_row(input[i]) : i \in NewAt(input, before)}
        /\ \A i \in NewAt(input, before) : build_row(input[i]) \in Rows(store)

C7_Witness ==
    /\ pc = "returned"
    /\ Len(before) > 1
    /\ written >= 1
    /\ \E i \in 1..Len(input) :
           /\ input[i].url \in SheetUrls(before)
           /\ build_row(input[i]) \notin Rows(before)

\* C10: for every call, written + duplicates is the length of the input, written
\* is the number of rows the sheet grew by, and the summary's eligible count is
\* written + duplicates.
C10_Counts ==
    pc = "returned" =>
        /\ written + duplicates = Len(input)
        /\ written = Len(store) - Len(before)
        /\ message.eligible = message.written + message.duplicates
        /\ message.eligible = Len(input)
        /\ message.written = written
        /\ message.duplicates = duplicates

C10_Witness ==
    /\ pc = "returned"
    /\ written >= 1
    /\ duplicates >= 1
    /\ message.eligible = 2

----------------------------------------------------------------------------
(* SpecFilter: filter_listings applied to every bounded input under every  *)
(* configuration of the lead time.                                         *)

InitFilter ==
    /\ store = <<HeaderRow>>
    /\ pc = "ready"
    /\ config \in {c \in Configs : ~c.mailer}
    /\ site = <<>>
    /\ input \in SeqsUpTo(FilterInputs, MaxIn)
    /\ listings = <<>>
    /\ written = 0
    /\ duplicates = 0
    /\ before = <<HeaderRow>>
    /\ repeatOf = NoCall
    /\ message = NoMessage
    /\ mails = <<>>
    /\ reported = FALSE
    /\ raised = "none"

FilterListingsCall ==
    /\ pc = "ready"
    /\ LET r == filter_listings(config, Today, input)
       IN  /\ listings' = r.listings
           /\ raised' = r.raised
    /\ pc' = "returned"
    /\ UNCHANGED <<store, config, site, input, written, duplicates, before,
                   repeatOf, message, mails, reported>>

NextFilter == FilterListingsCall

SpecFilter == InitFilter /\ [][NextFilter]_vars

LeadConfigured(cfg) == cfg.has_lead /\ cfg.lead # <<>>

\* the listings of ls that are dated strictly later than today + n_weeks
AvailableAfter(n_weeks, today, ls) ==
    SelectSeq(ls, LAMBDA listing :
        /\ listing.date_available \notin {EmptyText, NowText}
        /\ convert_date(listing.date_available) > today + 7 * n_weeks)

\* C3: with a lead time of n > 0 weeks the filter returns, without raising,
\* exactly the input listings dated strictly later than today + n weeks (the
\* listing dated today + n weeks is out, the one dated a day later is in, and
\* the listings with no date or "Now" are out).
C3_FilterBoundary ==
    (pc = "returned" /\ LeadConfigured(config) /\ int(config.lead) > 0)
    => /\ raised = "none"
       /\ listings = AvailableAfter(int(config.lead), Today, input)

\* C9: with no lead time configured the filter returns its input unchanged and
\* does not raise, the option being absent included.
C9_NoLeadUnchanged ==
    (pc = "returned" /\ ~LeadConfigured(config))
    => /\ raised = "none"
       /\ listings = input

----------------------------------------------------------------------------
(* Spec: the script run again and again by cron on one worksheet.  A run   *)
(* is scrape_listings, filter_listings, process_listings; an exception     *)
(* nothing catches ends it.                                                *)

Init ==
    /\ store = <<HeaderRow>>
    /\ pc = "start"
    /\ config \in Configs
    /\ site = <<>>
    /\ input = <<>>
    /\ listings = <<>>
    /\ written = 0
    /\ duplicates = 0
    /\ before = <<HeaderRow>>
    /\ repeatOf = NoCall
    /\ message = NoMessage
    /\ mails = <<>>
    /\ reported = FALSE
    /\ raised = "none"

ScrapeListings ==
    /\ pc = "start"
    /\ \E answers \in [1..NumLocations -> LocationAnswers] :
        LET r == scrape_listings(answers)
        IN  /\ site' = answers
            /\ listings' = r.listings
            /\ raised' = r.raised
            /\ pc' = IF r.raised # "none" THEN "failed" ELSE "scraped"
    /\ UNCHANGED <<store, config, input, written, duplicates, before, repeatOf,
                   message, mails, reported>>

FilterListings ==
    /\ pc = "scraped"
    /\ LET r == filter_listings(config, Today, listings)
       IN  /\ listings' = r.listings
           /\ raised' = r.raised
           /\ pc' = IF r.raised # "none" THEN "failed" ELSE "filtered"
    /\ UNCHANGED <<store, config, site, input, written, duplicates, before,
                   repeatOf, message, mails, reported>>

ProcessListings ==
    /\ pc = "filtered"
    /\ \E smtp_ok \in BOOLEAN :
        LET r == process_listings(store, listings, config, smtp_ok)
        IN  /\ store' = r.sheet
            /\ written' = r.written
            /\ duplicates' = r.duplicates
            /\ message' = r.message
            /\ mails' = r.mails
            /\ reported' = r.reported
            /\ raised' = r.raised
            /\ pc' = IF r.raised # "none" THEN "failed" ELSE "done"
    /\ input' = listings
    /\ before' = store
    /\ UNCHANGED <<config, site, listings, repeatOf>>

\* cron starts the script again; the worksheet is what the runs share
NextRun ==
    /\ pc \in {"done", "failed"}
    /\ pc' = "start"
    /\ site' = <<>>
    /\ input' = <<>>
    /\ listings' = <<>>
    /\ written' = 0
    /\ duplicates' = 0
    /\ before' = store
    /\ message' = NoMessage
    /\ mails' = <<>>
    /\ reported' = FALSE
    /\ raised' = "none"
    /\ UNCHANGED <<store, config, repeatOf>>

Next == ScrapeListings \/ FilterListings \/ ProcessListings \/ NextRun

Spec == Init /\ [][Next]_vars

----------------------------------------------------------------------------
(* Properties of a run. *)

\* every listing the locations' pages led to, in the order scraped
Candidates(answers) == scrape_each(answers, 1, <<>>).listings

\* where a URL is first met in a listing sequence
FirstIndex(ls, url) ==
    CHOOSE i \in 1..Len(ls) : ls[i].url = url /\ \A j \in 1..(i - 1) : ls[j].url # url

\* C6: what scrape_listings returns holds each URL found at any location once,
\* as the listing first met for it among all the locations' listings taken in
\* order, and the listings kept stand in the order they were met.
C6_FirstOccurrence ==
    pc = "scraped" =>
        LET c == Candidates(site)
        IN  /\ DistinctUrls(listings)
            /\ UrlsOf(listings) = UrlsOf(c)
            /\ \A i \in 1..Len(listings) :
                   listings[i] = c[FirstIndex(c, listings[i].url)]
            /\ \A i, j \in 1..Len(listings) :
                   i < j => FirstIndex(c, listings[i].url) < FirstIndex(c, listings[j].url)

C6_Witness ==
    /\ pc = "scraped"
    /\ Len(listings) = 2
    /\ \E i \in 1..Len(site[1].links), j \in 1..Len(site[2].links) :
           site[1].links[i] = site[2].links[j]
    /\ \E i, j \in 1..Len(site[1].links) : i < j /\ site[1].links[i] = site[1].links[j]

FetchFailed(answers) ==
    \E i \in 1..Len(answers) : answers[i].fetch \in {"status", "transport"}

\* the listings of the locations whose search page was fetched
RECURSIVE FetchedListings(_, _)
FetchedListings(answers, i) ==
    IF i > Len(answers) THEN <<>>
    ELSE (IF answers[i].fetch = "ok" THEN scrape(answers[i]).listings ELSE <<>>)
         \o FetchedListings(answers, i + 1)

\* C5: when the search page of a location cannot be fetched, that location alone
\* is skipped: the fetch failure does not end the run, the other locations'
\* listings are what scrape_listings returns, and they are in the sheet when
\* the run is done.
C5_FetchIsolation ==
    (site # <<>> /\ FetchFailed(site)) =>
        /\ raised # "ConnectionError"
        /\ pc = "scraped" =>
               listings = remove_duplicate_listings(FetchedListings(site, 1))
        /\ (pc = "done" /\ ~LeadConfigured(config)) =>
               UrlsOf(FetchedListings(site, 1)) \subseteq SheetUrls(store)

\* C4: with a [mailer] section configured, a run whose add_listings wrote nothing
\* hands no message to the mailer, and a run that wrote at least one listing
\* hands it exactly one, carrying the eligible, written and duplicate counts;
\* nothing is handed over before add_listings has returned.
C4_NotificationGating ==
    /\ pc \in {"start", "scraped", "filtered"} => mails = <<>>
    /\ (pc = "done" /\ config.mailer) =>
           IF written = 0 THEN mails = <<>>
           ELSE mails = <<[eligible |-> Len(input), written |-> written,
                           duplicates |-> duplicates]>>

C4_Witness ==
    /\ pc = "done"
    /\ config.mailer
    /\ written >= 1
    /\ duplicates >= 1
    /\ Len(mails) = 1

====
